---- MODULE Spec2Model ----
(***************************************************************************)
(* A model of package isplaintextfile (src/isplaintextfile.go): the        *)
(* plaintext classifier isBufferPlaintext, the stream accumulator          *)
(* isPlaintextFromReader, and the five public entry points Bytes, File,    *)
(* FilePreview, Reader and ReaderPreview.                                  *)
(*                                                                         *)
(* Bytes are the integers 0..255 and a buffer is a sequence of bytes.      *)
(* The caller-supplied io.Reader (or the opened file) is the environment:  *)
(* it holds `content` and hands it out in chunks of its own choosing,      *)
(* possibly with zero-length reads and with read failures.                 *)
(***************************************************************************)
EXTENDS Integers, Sequences, FiniteSets

VARIABLES
    content,    \* the bytes the stream (or file) holds
    op,         \* the entry point in progress, "none" when idle
    maxKB,      \* the maxKB argument, a 64-bit int (see Int64 below)
    pc,         \* "idle" | "read" | "check" | "done"
    buffer,     \* isPlaintextFromReader's buffer
    off,        \* bytes taken from the underlying stream so far
    limited,    \* TRUE when the reader is an io.LimitedReader
    limN,       \* io.LimitedReader.N, the bytes it may still hand out
    n,          \* n of the last reader.Read
    err,        \* err of the last reader.Read
    underlying, \* TRUE when the last reader.Read reached the underlying stream
    failure,    \* the first failure the underlying stream returned, or Nil
    handles,    \* number of open file handles
    result      \* <<bool, error>> returned by the call, or NoResult

vars == <<content, op, maxKB, pc, buffer, off, limited, limN, n, err,
          underlying, failure, handles, result>>

----------------------------------------------------------------------------
(* Errors *)

Nil == "nil"
EOF == "EOF"
ErrInvalidLength == "invalid length: maxKB must be greater than 0"
ErrOpen == "open failed"
ReadErrors == {"read error"}
NoResult == <<>>

----------------------------------------------------------------------------
(* unicode/utf8, as used at isplaintextfile.go lines 12 and 18 *)

RuneError == 65533
RuneSelf == 128

\* utf8.first and utf8.acceptRanges: for a lead byte, the length of its
\* sequence and the range its second byte must lie in; size 0 is utf8.xx,
\* a byte that starts no sequence.
First(b) ==
    IF b < RuneSelf THEN [size |-> 1, lo |-> 0, hi |-> 0]
    ELSE IF b < 194 THEN [size |-> 0, lo |-> 0, hi |-> 0]
    ELSE IF b < 224 THEN [size |-> 2, lo |-> 128, hi |-> 191]
    ELSE IF b = 224 THEN [size |-> 3, lo |-> 160, hi |-> 191]
    ELSE IF b = 237 THEN [size |-> 3, lo |-> 128, hi |-> 159]
    ELSE IF b < 240 THEN [size |-> 3, lo |-> 128, hi |-> 191]
    ELSE IF b = 240 THEN [size |-> 4, lo |-> 144, hi |-> 191]
    ELSE IF b < 244 THEN [size |-> 4, lo |-> 128, hi |-> 191]
    ELSE IF b = 244 THEN [size |-> 4, lo |-> 128, hi |-> 143]
    ELSE [size |-> 0, lo |-> 0, hi |-> 0]

\* A continuation byte: locb <= c <= hicb.
IsCont(c) == 128 <= c /\ c <= 191

\* utf8.DecodeRune(p[pos:]) with pos counted from 0: <<rune, size>>.
DecodeRune(p, pos) ==
    LET len == Len(p) - pos
        p0 == p[pos + 1]
        x == First(p0)
    IN  IF len < 1 THEN <<RuneError, 0>>
        ELSE IF x.size = 1 THEN <<p0, 1>>
        ELSE IF x.size = 0 THEN <<RuneError, 1>>
        ELSE IF len < x.size THEN <<RuneError, 1>>
        ELSE LET b1 == p[pos + 2] IN
             IF b1 < x.lo \/ x.hi < b1 THEN <<RuneError, 1>>
             ELSE IF x.size = 2 THEN <<(p0 % 32) * 64 + (b1 % 64), 2>>
             ELSE LET b2 == p[pos + 3] IN
                  IF ~IsCont(b2) THEN <<RuneError, 1>>
                  ELSE IF x.size = 3
                       THEN <<(p0 % 16) * 4096 + (b1 % 64) * 64 + (b2 % 64), 3>>
                  ELSE LET b3 == p[pos + 4] IN
                       IF ~IsCont(b3) THEN <<RuneError, 1>>
                       ELSE <<(p0 % 8) * 262144 + (b1 % 64) * 4096
                              + (b2 % 64) * 64 + (b3 % 64), 4>>

\* A for loop is run by composing its body with itself: the loop run for k doublings
\* is the loop state after 2^k passes from s.  A pass over a finished state
\* (one that has returned or left the loop) changes nothing, so 2^k passes
\* with 2^k > Len(buffer) are the whole loop.  The state after the first
\* half and the count k - 1 are bound as the one element of a set each, so
\* that they are computed once.
RECURSIVE Passes(_)
Passes(len) == IF len = 0 THEN 0 ELSE 1 + Passes(len \div 2)

\* One pass of utf8.Valid's loop.  The loop state is [i, ok]: i the index,
\* ok = FALSE once the function has returned false.
ValidPass(p, s) ==
    IF ~s.ok \/ s.i >= Len(p) THEN s
    ELSE LET pi == p[s.i + 1]
             x == First(pi)
         IN  IF pi < RuneSelf THEN [s EXCEPT !.i = s.i + 1]
             ELSE IF x.size = 0 THEN [s EXCEPT !.ok = FALSE]
             ELSE IF s.i + x.size > Len(p) THEN [s EXCEPT !.ok = FALSE]
             ELSE IF p[s.i + 2] < x.lo \/ x.hi < p[s.i + 2]
                  THEN [s EXCEPT !.ok = FALSE]
             ELSE IF x.size = 2 THEN [s EXCEPT !.i = s.i + 2]
             ELSE IF ~IsCont(p[s.i + 3]) THEN [s EXCEPT !.ok = FALSE]
             ELSE IF x.size = 3 THEN [s EXCEPT !.i = s.i + 3]
             ELSE IF ~IsCont(p[s.i + 4]) THEN [s EXCEPT !.ok = FALSE]
             ELSE [s EXCEPT !.i = s.i + 4]

RECURSIVE ValidLoop(_, _, _)
ValidLoop(p, s, k) ==
    IF k = 0 THEN ValidPass(p, s)
    ELSE CHOOSE r \in { ValidLoop(p, half, j) :
                           half \in { ValidLoop(p, s, k - 1) },
                           j \in { k - 1 } } : TRUE

\* utf8.Valid(p)
Valid(p) == ValidLoop(p, [i |-> 0, ok |-> TRUE], Passes(Len(p))).ok

\* IsControl with '\r' left out of the accepted whitespace.
IsControl_NoCR(r) == r < 32 /\ r # 10 /\ r # 9

\* The accepted runes of isBufferPlaintext's test at line 21.
IsControl(r) == r < 32 /\ r # 10 /\ r # 13 /\ r # 9

\* One pass of isBufferPlaintext's loop (lines 17-26).  The loop state is
\* [pos, ok]: ok = FALSE once the function has returned false.
ScanPass(b, s) ==
    IF ~s.ok \/ s.pos >= Len(b) THEN s
    ELSE LET d == DecodeRune(b, s.pos) IN
         IF IsControl(d[1]) THEN [s EXCEPT !.ok = FALSE]
         ELSE [s EXCEPT !.pos = s.pos + d[2]]

RECURSIVE ScanLoop(_, _, _)
ScanLoop(b, s, k) ==
    IF k = 0 THEN ScanPass(b, s)
    ELSE CHOOSE r \in { ScanLoop(b, half, j) :
                           half \in { ScanLoop(b, s, k - 1) },
                           j \in { k - 1 } } : TRUE

\* isBufferPlaintext without the utf8.Valid test of lines 12-14: DecodeRune
\* turns every malformed byte into RuneError, which is no control character.
isBufferPlaintext_NoValid(b) ==
    ScanLoop(b, [pos |-> 0, ok |-> TRUE], Passes(Len(b))).ok

\* isBufferPlaintext(buffer)
isBufferPlaintext(b) ==
    IF ~Valid(b) THEN FALSE
    ELSE ScanLoop(b, [pos |-> 0, ok |-> TRUE], Passes(Len(b))).ok

\* Bytes(data)
Bytes(data) == <<isBufferPlaintext(data), Nil>>

----------------------------------------------------------------------------
(* Go's int, 64 bits wide, two's complement.  A value is its four 16-bit  *)
(* limbs, least significant first, so that the wrap-around of maxKB * 1024 *)
(* (lines 85 and 97) is computed exactly.                                  *)

Limb == 65536

Int64(a, b, c, d) == <<a, b, c, d>>

IsZero64(w) == w = Int64(0, 0, 0, 0)
IsNeg64(w) == w[4] >= Limb \div 2
IsPos64(w) == ~IsZero64(w) /\ ~IsNeg64(w)

\* w * 1024 in 64-bit arithmetic: the carry out of the top limb is lost.
Mul1024(w) ==
    LET t1 == w[1] * 1024
        t2 == w[2] * 1024 + t1 \div Limb
        t3 == w[3] * 1024 + t2 \div Limb
        t4 == w[4] * 1024 + t3 \div Limb
    IN  Int64(t1 % Limb, t2 % Limb, t3 % Limb, t4 % Limb)

\* The value of w as an integer of the model.  Values beyond +-Huge are held
\* at +-Huge: the streams of the model are far shorter than Huge, and the
\* value is only compared with 0 and with len(p) and decreased by n.
Huge == Limb * (Limb \div 4)
ToInt(w) ==
    IF IsNeg64(w)
    THEN IF w[4] = Limb - 1 /\ w[3] = Limb - 1 /\ w[2] >= 3 * (Limb \div 4)
         THEN (w[2] - Limb) * Limb + w[1]
         ELSE 0 - Huge
    ELSE IF w[4] = 0 /\ w[3] = 0 /\ w[2] < Limb \div 4
         THEN w[2] * Limb + w[1]
         ELSE Huge

----------------------------------------------------------------------------
(* isPlaintextFromReader and the readers it is given *)

TempBufLen == 1024

\* The append written as an assignment: buffer = tempBuf[:n].
AppendRead_Overwrite(buf, chunk, k) == IF k > 0 THEN chunk ELSE buf

\* Lines 37-39: buffer = append(buffer, tempBuf[:n]...) when n > 0.
AppendRead(buf, chunk, k) == IF k > 0 THEN buf \o chunk ELSE buf

\* Lines 48-51: the verdict on the accumulated buffer.
Finish(buf) ==
    IF Len(buf) = 0 THEN <<TRUE, Nil>> ELSE <<isBufferPlaintext(buf), Nil>>

\* The loop leaving on any error, as if it were end-of-data.
AfterRead_BreakOnAnyError(e, buf) ==
    IF e # Nil THEN [returned |-> TRUE, value |-> Finish(buf)]
    ELSE [returned |-> FALSE, value |-> NoResult]

\* The loop without its exit on end-of-data.
AfterRead_NoEOFExit(e, buf) ==
    IF e # Nil /\ e # EOF THEN [returned |-> TRUE, value |-> <<FALSE, e>>]
    ELSE [returned |-> FALSE, value |-> NoResult]

\* Lines 40-51: what the loop does with the err of a read.  returned = FALSE
\* is the next pass of the loop.
AfterRead(e, buf) ==
    IF e = EOF THEN [returned |-> TRUE, value |-> Finish(buf)]
    ELSE IF e # Nil THEN [returned |-> TRUE, value |-> <<FALSE, e>>]
    ELSE [returned |-> FALSE, value |-> NoResult]

\* Lines 80 and 99: the argument check of the preview functions.
PreviewRejects(kb) == IsZero64(kb)

\* The limit taken in bytes instead of kilobytes.
LimitBytes_NoScale(kb) == ToInt(kb)

\* Lines 85 and 97, 103: int64(maxKB * 1024), the N of io.LimitReader.
LimitBytes(kb) == ToInt(Mul1024(kb))

\* A limited reader that hands the whole of p to the underlying stream.
LimitedLen_NoCut(N, lenp) == lenp

\* io.LimitedReader.Read: p is cut to N bytes when it is longer.
LimitedLen(N, lenp) == IF lenp > N THEN N ELSE lenp

\* Close called on the successful return only, instead of deferred.
CloseOnReturn_SuccessOnly(h, e) == IF e = Nil THEN h - 1 ELSE h

\* Line 66 and 78: defer file.Close() runs at every return after the open.
\* e is the error being returned.
CloseOnReturn(h, e) == h - 1

----------------------------------------------------------------------------
(* The environment: contents, maxKB arguments, and the stream's chunks *)

KB == 1024

\* Contents are a run of 'A' followed by a short tail of units: single
\* bytes, whole code points of 2 and 3 bytes, and pieces of one.
PadSlack == 2
MaxUnits == 2
Near == 1
MaxLen == 4
LiveUnits == 1

Pad(k) == [i \in 1..k |-> 65]
PadLens == {0} \cup {KB - d : d \in 0..PadSlack}
Units == { <<7>>, <<195, 169>>, <<228, 189, 160>>, <<169>> }

RECURSIVE Tails(_)
Tails(k) ==
    IF k = 0 THEN { <<>> }
    ELSE LET shorter == Tails(k - 1)
         IN  shorter \cup { t \o u : t \in shorter, u \in Units }

Contents == { Pad(k) \o t : k \in PadLens, t \in Tails(MaxUnits) }

\* Inputs of Bytes: every sequence of at most MaxLen bytes over the bytes
\* at which utf8.first, utf8.acceptRanges and line 21 change their answer:
\* tab, newline, carriage return, 31, space, the continuation bytes 0x80 and
\* 0xA0, and the lead bytes 0xC0, 0xC2, 0xE0, 0xED, 0xF0, 0xF4.
ByteAlphabet == {9, 10, 13, 31, 32, 128, 160, 192, 194, 224, 237, 240, 244}
ByteInputs == UNION { [1..k -> ByteAlphabet] : k \in 0..MaxLen }

\* maxKB arguments: 0, 1, 2, -1, and two whose product with 1024 leaves
\* 64 bits: 2^53 (wraps to -2^63) and 2^54 (wraps to 0).
MaxKBValues ==
    { Int64(0, 0, 0, 0), Int64(1, 0, 0, 0), Int64(2, 0, 0, 0),
      Int64(Limb - 1, Limb - 1, Limb - 1, Limb - 1),
      Int64(0, 0, 0, 32), Int64(0, 0, 0, 64) }

\* A read either fills p (or gives all that is left, as bytes.Reader and
\* os.File do), or stops at a chunk boundary of the stream's own; these lie
\* near the start or near the end of the content.
CutPoints ==
    { o \in (0..Near) \cup ((Len(content) - Near)..Len(content)) :
         0 <= o /\ o <= Len(content) }

Min(a, b) == IF a <= b THEN a ELSE b

\* The underlying stream's Read(p) with len(p) = lenp: the byte counts it
\* may return, and the errors it may return with k bytes.  End-of-data is
\* signalled with or after the last byte; a read of nothing can come at any
\* time; a failure can come at any time, alone or with all the bytes the
\* read could give.
Full(lenp) == Min(lenp, Len(content) - off)

StreamCounts(lenp) ==
    {0, Full(lenp)}
       \cup { c - off : c \in { o \in CutPoints : off < o /\ o - off <= lenp } }

StreamErrors(lenp, k) ==
    {Nil} \cup (IF k = 0 \/ k = Full(lenp) THEN ReadErrors ELSE {})
          \cup (IF off + k = Len(content) THEN {EOF} ELSE {})

----------------------------------------------------------------------------
(* Actions *)

FileOps == {"File", "FilePreview"}
PreviewOps == {"ReaderPreview", "FilePreview"}

\* No call in progress, on a stream holding one of the contents C.
InitWith(C) ==
    /\ content \in C
    /\ op = "none"
    /\ maxKB = Int64(0, 0, 0, 0)
    /\ pc = "idle"
    /\ buffer = <<>>
    /\ off = 0
    /\ limited = FALSE
    /\ limN = 0
    /\ n = 0
    /\ err = Nil
    /\ underlying = FALSE
    /\ failure = Nil
    /\ handles = 0
    /\ result = NoResult

Init == InitWith(Contents)

\* The start of isPlaintextFromReader (lines 32-33) on a fresh stream.
Enter(name, kb, lim, N, h) ==
    /\ op' = name
    /\ maxKB' = kb
    /\ pc' = "read"
    /\ limited' = lim
    /\ limN' = N
    /\ handles' = h
    /\ UNCHANGED <<content, buffer, off, n, err, underlying, failure, result>>

\* A call that returns before any read.
ReturnAtOnce(name, kb, value, h) ==
    /\ op' = name
    /\ maxKB' = kb
    /\ pc' = "done"
    /\ result' = value
    /\ handles' = h
    /\ UNCHANGED <<content, buffer, off, limited, limN, n, err, underlying,
                   failure>>

CallBytes ==
    /\ pc = "idle"
    /\ ReturnAtOnce("Bytes", maxKB, Bytes(content), handles)

CallReader ==
    /\ pc = "idle"
    /\ Enter("Reader", maxKB, FALSE, 0, handles)

CallReaderPreview ==
    /\ pc = "idle"
    /\ \E kb \in MaxKBValues :
          IF PreviewRejects(kb)
          THEN ReturnAtOnce("ReaderPreview", kb, <<TRUE, ErrInvalidLength>>,
                            handles)
          ELSE Enter("ReaderPreview", kb, TRUE, LimitBytes(kb), handles)

CallFile ==
    /\ pc = "idle"
    /\ \E opens \in BOOLEAN :
          IF ~opens
          THEN ReturnAtOnce("File", maxKB, <<FALSE, ErrOpen>>, handles)
          ELSE Enter("File", maxKB, FALSE, 0, handles + 1)

CallFilePreview ==
    /\ pc = "idle"
    /\ \E opens \in BOOLEAN, kb \in MaxKBValues :
          IF ~opens
          THEN ReturnAtOnce("FilePreview", kb, <<FALSE, ErrOpen>>, handles)
          ELSE IF PreviewRejects(kb)
          THEN ReturnAtOnce("FilePreview", kb, <<TRUE, ErrInvalidLength>>,
                            CloseOnReturn(handles + 1, ErrInvalidLength))
          ELSE Enter("FilePreview", kb, TRUE, LimitBytes(kb), handles + 1)

\* Lines 36-39: one reader.Read(tempBuf) and the append of what it gave.
ReadStep ==
    /\ pc = "read"
    /\ pc' = "check"
    /\ IF limited /\ limN <= 0
       THEN /\ n' = 0
            /\ err' = EOF
            /\ underlying' = FALSE
            /\ UNCHANGED <<buffer, off, limN, failure>>
       ELSE \E lenp \in { IF limited THEN LimitedLen(limN, TempBufLen)
                                      ELSE TempBufLen } :
            \E k \in StreamCounts(lenp) :
            \E e \in StreamErrors(lenp, k) :
               /\ n' = k
               /\ err' = e
               /\ underlying' = TRUE
               /\ off' = off + k
               /\ limN' = IF limited THEN limN - k ELSE limN
               /\ buffer' = AppendRead(buffer, SubSeq(content, off + 1, off + k), k)
               /\ failure' = IF failure = Nil /\ e \in ReadErrors
                             THEN e ELSE failure
    /\ UNCHANGED <<content, op, maxKB, limited, handles, result>>

\* Lines 40-51: the loop's exits, the verdict, and the deferred Close.  n and
\* err are local to one pass of the loop.
CheckStep ==
    /\ pc = "check"
    /\ \E out \in { AfterRead(err, buffer) } :
          IF out.returned
          THEN /\ pc' = "done"
               /\ result' = out.value
               /\ handles' = IF op \in FileOps
                             THEN CloseOnReturn(handles, out.value[2])
                             ELSE handles
               /\ UNCHANGED <<n, err, underlying>>
          ELSE /\ pc' = "read"
               /\ n' = 0
               /\ err' = Nil
               /\ underlying' = FALSE
               /\ UNCHANGED <<result, handles>>
    /\ UNCHANGED <<content, op, maxKB, buffer, off, limited, limN, failure>>

\* The caller takes the result; the next call gets a fresh stream.
Reset ==
    /\ pc = "done"
    /\ pc' = "idle"
    /\ op' = "none"
    /\ maxKB' = Int64(0, 0, 0, 0)
    /\ buffer' = <<>>
    /\ off' = 0
    /\ limited' = FALSE
    /\ limN' = 0
    /\ n' = 0
    /\ err' = Nil
    /\ underlying' = FALSE
    /\ failure' = Nil
    /\ result' = NoResult
    /\ UNCHANGED <<content, handles>>

Next ==
    \/ CallBytes
    \/ CallReader
    \/ CallReaderPreview
    \/ CallFile
    \/ CallFilePreview
    \/ ReadStep
    \/ CheckStep
    \/ Reset

Spec == Init /\ [][Next]_vars

\* The library's own steps are always taken: each read call returns and the
\* loop goes on.  What a read returns stays the stream's choice.
\* Termination is checked on the contents with tails of LiveUnits units.
LiveInit == InitWith({ Pad(k) \o t : k \in PadLens, t \in Tails(LiveUnits) })
FairSpec ==
    LiveInit /\ [][Next]_vars /\ WF_vars(ReadStep) /\ WF_vars(CheckStep)

\* Bytes alone, on every short byte sequence.
BytesInit == InitWith(ByteInputs)
BytesNext == CallBytes \/ Reset
BytesSpec == BytesInit /\ [][BytesNext]_vars

----------------------------------------------------------------------------
(* What the claims speak of *)

\* UTF-8 as the Unicode standard defines it: the encoding of a scalar value,
\* and the value a sequence of 1 to 4 bytes would stand for.
IsScalar(cp) == (0 <= cp /\ cp < 55296) \/ (57344 <= cp /\ cp <= 1114111)

EncodeScalar(cp) ==
    IF cp < 128 THEN <<cp>>
    ELSE IF cp < 2048 THEN <<192 + (cp \div 64), 128 + (cp % 64)>>
    ELSE IF cp < 65536
         THEN <<224 + (cp \div 4096), 128 + ((cp \div 64) % 64),
                128 + (cp % 64)>>
    ELSE <<240 + (cp \div 262144), 128 + ((cp \div 4096) % 64),
           128 + ((cp \div 64) % 64), 128 + (cp % 64)>>

RawValue(s) ==
    IF Len(s) = 1 THEN s[1]
    ELSE IF Len(s) = 2 THEN (s[1] - 192) * 64 + (s[2] - 128)
    ELSE IF Len(s) = 3
         THEN (s[1] - 224) * 4096 + (s[2] - 128) * 64 + (s[3] - 128)
    ELSE (s[1] - 240) * 262144 + (s[2] - 128) * 4096 + (s[3] - 128) * 64
         + (s[4] - 128)

\* s is the encoding of one code point.
EncodesOne(s) == IsScalar(RawValue(s)) /\ EncodeScalar(RawValue(s)) = s

Accepted(cp) == cp >= 32 \/ cp \in {10, 13, 9}

\* b is a valid encoding all of whose code points are accepted.
RECURSIVE ClaimPlaintext(_)
ClaimPlaintext(b) ==
    \/ b = <<>>
    \/ \E k \in 1..4 :
          /\ k <= Len(b)
          /\ EncodesOne(SubSeq(b, 1, k))
          /\ Accepted(RawValue(SubSeq(b, 1, k)))
          /\ ClaimPlaintext(SubSeq(b, k + 1, Len(b)))

\* maxKB * 1024 as a number, without wrap-around (held at Huge beyond it).
CapOf(kb) ==
    IF kb[4] = 0 /\ kb[3] = 0 /\ kb[2] < 16
    THEN (kb[2] * Limb + kb[1]) * KB
    ELSE Huge

Returned == pc = "done"
\* A preview call with maxKB > 0 on an opened stream that has returned.
PreviewReturned ==
    /\ Returned
    /\ op \in PreviewOps
    /\ IsPos64(maxKB)
    /\ result[2] # ErrOpen
\* No read of the stream has failed.
Clean == failure = Nil

\* The bytes of c before position cap end inside a code point of 2 to 4
\* bytes that starts at a code point boundary of c.
CutInsideRune(c, cap) ==
    \E s \in 0..Len(c), k \in 2..4 :
       /\ s < cap /\ cap < s + k /\ s + k <= Len(c)
       /\ cap - s < 4
       /\ EncodesOne(SubSeq(c, s + 1, s + k))
       /\ Valid(SubSeq(c, 1, s))

----------------------------------------------------------------------------
(* Claims *)

\* C1: Bytes returns a nil error, and true exactly when its argument is a
\* valid UTF-8 encoding whose code points are all >= 32 or one of newline,
\* carriage return, tab; the empty sequence included.
C1_BytesIsThePredicate ==
    (Returned /\ op = "Bytes") => result = <<ClaimPlaintext(content), Nil>>

\* A carriage return followed by a 3-byte code point is accepted.
C1_Witness ==
    /\ Returned /\ op = "Bytes"
    /\ content = <<13, 237, 128, 128>>
    /\ result = <<TRUE, Nil>>

\* C2 (as claimed): a preview call with maxKB <= 0 returns true together
\* with the "invalid length" error.
C2_NonPositiveRejected ==
    (Returned /\ op \in PreviewOps /\ ~IsPos64(maxKB) /\ result[2] # ErrOpen)
       => result = <<TRUE, ErrInvalidLength>>

\* C3 (as claimed): a preview whose cap maxKB * 1024 covers the whole content
\* returns what the unlimited call returns on that content.
C3_PreviewEqualsWhole ==
    (PreviewReturned /\ Clean /\ CapOf(maxKB) >= Len(content))
       => result = Finish(content)

\* C4: on a content longer than the cap, a preview returns what Bytes
\* returns on the first maxKB * 1024 bytes, whatever follows the cut.
C4_PreviewIsBytesOfPrefix ==
    (PreviewReturned /\ Clean /\ CapOf(maxKB) < Len(content))
       => result = Bytes(SubSeq(content, 1, CapOf(maxKB)))

\* A preview answers true on a content that is not plaintext as a whole.
C4_Witness ==
    /\ PreviewReturned /\ Clean
    /\ CapOf(maxKB) < Len(content)
    /\ result = <<TRUE, Nil>>
    /\ ~isBufferPlaintext(content)

\* C5: once a read of the stream has failed, the call returns false with
\* that failure as its error, whatever was accumulated.
C5_FailurePropagates ==
    (Returned /\ failure # Nil) => result = <<FALSE, failure>>

\* A failure delivered together with bytes, after earlier bytes.
C5_Witness ==
    /\ Returned /\ failure # Nil
    /\ n > 0 /\ Len(buffer) > n
    /\ result = <<FALSE, failure>>

\* C6: no file handle is open when no call is in progress, and at most one
\* is open during a call.
C6_HandlesClosed ==
    /\ pc \in {"idle", "done"} => handles = 0
    /\ handles \in {0, 1}

\* FilePreview has opened the file, a read has failed, the handle is closed.
C6_Witness ==
    /\ Returned /\ op = "FilePreview"
    /\ failure # Nil
    /\ handles = 0

\* A Reader or ReaderPreview (maxKB > 0) call in progress.
ReaderActive ==
    /\ pc \in {"read", "check"}
    /\ op = "Reader" \/ (op = "ReaderPreview" /\ IsPos64(maxKB))
\* A read that has returned zero bytes and no error.
ZeroRead == pc = "check" /\ n = 0 /\ err = Nil

\* C7 (as claimed): every Reader and ReaderPreview call returns.
C7_AlwaysReturns == ReaderActive ~> Returned

\* C7 (amended): every Reader and ReaderPreview call returns, unless reads
\* of zero bytes with no error keep coming.
C7_ReturnsUnlessZeroReads == ReaderActive ~> (Returned \/ ZeroRead)

\* ReaderPreview has returned though the stream never signalled end-of-data.
C7_Witness ==
    /\ Returned /\ op = "ReaderPreview" /\ IsPos64(maxKB)
    /\ Clean
    /\ off < Len(content)
    /\ err = EOF /\ ~underlying

\* C8: when the stream has ended with end-of-data, Reader and File return
\* what Bytes returns on all the bytes the stream delivered, however it
\* split them.
C8_ReaderIsBytesOfDelivered ==
    (Returned /\ op \in {"Reader", "File"} /\ err = EOF)
       => /\ off = Len(content)
          /\ result = Bytes(SubSeq(content, 1, off))

\* The last byte of a code point arrives alone, together with end-of-data.
C8_Witness ==
    /\ Returned /\ op = "Reader" /\ err = EOF
    /\ n = 1 /\ Len(content) > 1
    /\ IsCont(content[Len(content)])
    /\ result = <<TRUE, Nil>>

\* C9: in a preview with maxKB > 0 the bytes taken from the stream never
\* exceed maxKB * 1024, and a read reaches the stream only while fewer than
\* that have been taken.
C9_CapRespected ==
    (op \in PreviewOps /\ IsPos64(maxKB) /\ pc \in {"read", "check", "done"})
       => /\ off <= CapOf(maxKB)
          /\ (pc = "check" /\ underlying) => off - n < CapOf(maxKB)

\* The cap is reached on a longer content and the next read is answered
\* without the stream.
C9_Witness ==
    /\ pc = "check" /\ op \in PreviewOps /\ IsPos64(maxKB)
    /\ off = CapOf(maxKB)
    /\ off < Len(content)
    /\ ~underlying

\* C10: a preview whose cap falls inside a multi-byte code point returns
\* false with a nil error.
C10_CutInsideRuneIsFalse ==
    (PreviewReturned /\ Clean /\ CutInsideRune(content, CapOf(maxKB)))
       => result = <<FALSE, Nil>>

\* The content is plaintext as a whole and the preview answers false.
C10_Witness ==
    /\ PreviewReturned /\ Clean
    /\ CutInsideRune(content, CapOf(maxKB))
    /\ isBufferPlaintext(content)
    /\ result = <<FALSE, Nil>>

====
